---------------------------- MODULE Spec2Model ----------------------------
(***************************************************************************)
(* A model of the Drizzle helper collection:                               *)
(*   - buildConflictUpdateColumns (build-conflict-update-columns.ts),      *)
(*   - upsertRecord (upsert-record.ts),                                    *)
(*   - takeFirstOrNull / takeFirstOrThrow (toolbelt utilities).            *)
(*                                                                         *)
(* JavaScript objects are modelled as ordered mappings: sequences of       *)
(* [key, value] entries in Object.keys order, with at most one entry per   *)
(* key.  Arrays are sequences.  Objects that can be aliased live on a heap *)
(* (a sequence indexed by object reference).                               *)
(***************************************************************************)
EXTENDS Integers, Sequences, FiniteSets, TLC

VARIABLES
    table,            \* builder: the table descriptor handed to the builder
    excludeColumns,   \* builder: the caller's exclusion array
    heap,             \* builder: objects returned so far, by reference
    calls,            \* builder: log of the calls made, oldest first
    store,            \* upsert: rows of the users table, by storage name
    lastCall,         \* upsert: the most recent upsertRecord call and outcome
    items,            \* take: the array handed to takeFirstOrThrow
    taken             \* take: the outcome of takeFirstOrThrow(items)

vars == <<table, excludeColumns, heap, calls, store, lastCall, items, taken>>

builderVars == <<table, excludeColumns, heap, calls>>
upsertVars == <<store, lastCall>>
takeVars == <<items, taken>>

---------------------------------------------------------------------------
(* Bounds of the model.                                                    *)

\* longest exclusion array handed to the builder
MaxExclude == 2
\* most builder calls in one behaviour
MaxCalls == 2
\* conflict-target values (ids) are 1..MaxId
MaxId == 2
\* longest array handed to takeFirstOrThrow
MaxItems == 3

---------------------------------------------------------------------------
(* Generic helpers.                                                        *)

Range(s) == {s[i] : i \in DOMAIN s}

SeqsUpTo(S, n) == UNION {[1..k -> S] : k \in 0..n}

NoRepeat(s) == \A i, j \in DOMAIN s : i # j => s[i] # s[j]

\* the keys of an ordered mapping, in order
Keys(m) == [i \in DOMAIN m |-> m[i].key]

KeySet(m) == {m[i].key : i \in DOMAIN m}

\* the value stored under key k (k is a key of m)
Get(m, k) == (CHOOSE e \in Range(m) : e.key = k).value

\* position of x in the sequence s (x occurs in s)
IndexOf(s, x) == CHOOSE i \in DOMAIN s : s[i] = x /\ \A j \in 1..(i - 1) : s[j] # x

---------------------------------------------------------------------------
(* Tables.  A column descriptor has a logical identifier (key) and a       *)
(* storage name (name); the two may differ.                                *)

Columns ==
    { [key |-> "id", name |-> "id"],
      [key |-> "email", name |-> "email"],
      [key |-> "updatedAt", name |-> "updated_at"] }

ColumnIds == {c.key : c \in Columns}

\* an identifier that is no column of any table
Foreign == "bogus"

\* every non-empty table over Columns, in every declaration order
Tables ==
    { [columns |-> s] : s \in {t \in SeqsUpTo(Columns, Cardinality(Columns)) :
                                  t # <<>> /\ NoRepeat(t)} }

UsersTable ==
    [columns |-> << [key |-> "id", name |-> "id"],
                    [key |-> "email", name |-> "email"],
                    [key |-> "updatedAt", name |-> "updated_at"] >>]

---------------------------------------------------------------------------
(* buildConflictUpdateColumns                                              *)

\* getTableColumns(table): the table's column mapping, key -> descriptor
getTableColumns(t) == [i \in DOMAIN t.columns |->
                         [key |-> t.columns[i].key, value |-> t.columns[i]]]

\* Object.keys(obj)
ObjectKeys(obj) == Keys(obj)

\* arr.includes(x)
Includes(arr, x) == \E i \in DOMAIN arr : arr[i] = x

FilterNothing(keys, excluded) == keys

FilterKeepExcluded(keys, excluded) ==
    SelectSeq(keys, LAMBDA column : Includes(excluded, column))

\* Object.keys(allColumns).filter((column) => !excludeColumns.includes(column))
Filter(keys, excluded) ==
    SelectSeq(keys, LAMBDA column : ~Includes(excluded, column))

ColumnRefByKey(allColumns, column) == "excluded." \o column

\* sql.raw(`excluded.${allColumns[column].name}`)
ColumnRef(allColumns, column) == "excluded." \o Get(allColumns, column).name

PutFirst(acc, k, v) ==
    IF k \in KeySet(acc)
    THEN [i \in DOMAIN acc |-> IF acc[i].key = k THEN [key |-> k, value |-> v] ELSE acc[i]]
    ELSE <<[key |-> k, value |-> v]>> \o acc

\* acc[k] = v: an existing key keeps its place, a new key goes last
Put(acc, k, v) ==
    IF k \in KeySet(acc)
    THEN [i \in DOMAIN acc |-> IF acc[i].key = k THEN [key |-> k, value |-> v] ELSE acc[i]]
    ELSE Append(acc, [key |-> k, value |-> v])

RECURSIVE Reduce(_, _, _)
\* columnsToUpdate.reduce((acc, column) => { acc[column] = ...; return acc }, acc)
Reduce(columnsToUpdate, allColumns, acc) ==
    IF columnsToUpdate = <<>>
    THEN acc
    ELSE Reduce(Tail(columnsToUpdate), allColumns,
                Put(acc, Head(columnsToUpdate), ColumnRef(allColumns, Head(columnsToUpdate))))

SharedAccumulator(h) ==
    [ref |-> 1, value |-> IF h = <<>> THEN <<>> ELSE h[1]]

\* `{} as Record<Q, SQL>`: a new, empty object, allocated at each call
Accumulator(h) == [ref |-> Len(h) + 1, value |-> <<>>]

\* the builder, run on heap h: the reference it returns and the object's content
buildConflictUpdateColumns(h, t, excluded) ==
    LET allColumns == getTableColumns(t)
        columnsToUpdate == Filter(ObjectKeys(allColumns), excluded)
        acc == Accumulator(h)
    IN  [ref |-> acc.ref, value |-> Reduce(columnsToUpdate, allColumns, acc.value)]

\* heap h with object ref holding value v
Allocate(h, ref, v) ==
    IF ref \in DOMAIN h THEN [h EXCEPT ![ref] = v] ELSE Append(h, v)

NoCalls == <<>>

\* the caller invokes buildConflictUpdateColumns(table, excludeColumns)
CallBuilder ==
    /\ Len(calls) < MaxCalls
    /\ \E r \in {buildConflictUpdateColumns(heap, table, excludeColumns)} :
           /\ heap' = Allocate(heap, r.ref, r.value)
           /\ calls' = Append(calls, [table |-> table, excluded |-> excludeColumns,
                                      heapBefore |-> heap,
                                      ref |-> r.ref, returned |-> r.value])
    /\ UNCHANGED <<table, excludeColumns, upsertVars, takeVars>>

\* the caller deletes the first key of a result it holds
DeleteKey ==
    /\ \E i \in DOMAIN calls :
          LET ref == calls[i].ref IN
          /\ heap[ref] # <<>>
          /\ heap[ref] = calls[i].returned
          /\ heap' = [heap EXCEPT ![ref] = Tail(heap[ref])]
    /\ UNCHANGED <<table, excludeColumns, calls, upsertVars, takeVars>>

\* the caller adds a key of its own to a result it holds
AddKey ==
    /\ \E i \in DOMAIN calls :
          LET ref == calls[i].ref IN
          /\ heap[ref] = calls[i].returned
          /\ heap' = [heap EXCEPT ![ref] = Put(heap[ref], Foreign, "x")]
    /\ UNCHANGED <<table, excludeColumns, calls, upsertVars, takeVars>>

InitBuild ==
    /\ table \in Tables
    /\ excludeColumns \in SeqsUpTo(ColumnIds \cup {Foreign}, MaxExclude)
    /\ heap = <<>>
    /\ calls = NoCalls
    /\ store = {}
    /\ lastCall = [kind |-> "none"]
    /\ items = <<>>
    /\ taken = [kind |-> "none"]

NextBuild == CallBuilder \/ DeleteKey \/ AddKey

SpecBuild == InitBuild /\ [][NextBuild]_vars

---------------------------------------------------------------------------
(* upsertRecord on the users table.  The store holds rows by storage name; *)
(* records handed in and rows handed back are keyed by logical identifier. *)

\* the value of a column the record does not supply (no default declared)
Null == "NULL"

Ids == 1..MaxId
Emails == {"a@x.com", "old@x.com"}
Stamps == {"t1"}

\* PgInsertValue<users>: id and email are required, updatedAt is optional
InsertValues ==
    {[id |-> i, email |-> e] : i \in Ids, e \in Emails}
    \cup {[id |-> i, email |-> e, updatedAt |-> u] : i \in Ids, e \in Emails, u \in Stamps}

\* the columns of the users table that carry a unique index (the primary key)
UniqueKeys == {"id"}

\* conflictColumns handed in by callers
ConflictTargets == {"id", "email"}

\* excludeColumns handed in by callers; <<>> is the parameter's default
ExcludeChoices ==
    { <<>>, <<"id">>, <<"email">>, <<"updatedAt", "id">>, <<"id", "email", "updatedAt">> }

TableKeys(t) == Keys(getTableColumns(t))

StorageNames(t) == {c.name : c \in Range(t.columns)}

StorageName(t, key) == Get(getTableColumns(t), key).name

\* .values(data): the row proposed for insertion, omitted columns defaulted
ProposedRow(t, data) ==
    [n \in StorageNames(t) |->
        LET c == CHOOSE c \in Range(t.columns) : c.name = n
        IN  IF c.key \in DOMAIN data THEN data[c.key] ELSE Null]

\* .returning(): a stored row as handed back, keyed by logical identifier
Returning(t, row) == [k \in Range(TableKeys(t)) |-> row[StorageName(t, k)]]

\* whether a set-clause expression names a column of the proposed row
Resolves(t, expr) == \E n \in StorageNames(t) : expr = "excluded." \o n

\* the column of the proposed row that a set-clause expression names
Resolve(t, expr) == CHOOSE n \in StorageNames(t) : expr = "excluded." \o n

\* DO UPDATE SET: the existing row after the set clause is applied
ApplySet(t, row, proposed, set) ==
    [n \in StorageNames(t) |->
        IF \E e \in Range(set) : StorageName(t, e.key) = n
        THEN proposed[Resolve(t, Get(set, CHOOSE k \in KeySet(set) : StorageName(t, k) = n))]
        ELSE row[n]]

ConflictingRowsNever(rows, t, target, proposed) == {}

ConflictingRowsAny(rows, t, target, proposed) == rows

\* ON CONFLICT (target): the stored rows the proposed row collides with
ConflictingRows(rows, t, target, proposed) ==
    {r \in rows : r[StorageName(t, target)] = proposed[StorageName(t, target)]}

RECURSIVE SetToSeq(_)
SetToSeq(S) ==
    IF S = {} THEN <<>>
    ELSE LET x == CHOOSE x \in S : TRUE IN <<x>> \o SetToSeq(S \ {x})

Failure(db, why) == [kind |-> "error", error |-> why, rows |-> <<>>, store |-> db.rows]

\* db.insert(table).values(data).onConflictDoUpdate({target, set}).returning():
\* one statement; it either fails and leaves the store alone, or inserts the
\* proposed row, or updates the row it collides with
onConflictDoUpdate(db, t, data, target, set) ==
    IF ~db.connected THEN Failure(db, "connection failed")
    ELSE IF set = <<>> THEN Failure(db, "No values to set")
    ELSE IF target \notin UniqueKeys
    THEN Failure(db, "no unique constraint matching the ON CONFLICT specification")
    ELSE IF \E e \in Range(set) : ~Resolves(t, e.value)
    THEN Failure(db, "column does not exist")
    ELSE
        LET proposed == ProposedRow(t, data)
            hit == ConflictingRows(db.rows, t, target, proposed)
            updated == {ApplySet(t, r, proposed, set) : r \in hit}
        IN  IF hit = {}
            THEN [kind |-> "rows", error |-> "", rows |-> <<Returning(t, proposed)>>,
                  store |-> db.rows \cup {proposed}]
            ELSE [kind |-> "rows", error |-> "",
                  rows |-> SetToSeq({Returning(t, r) : r \in updated}),
                  store |-> (db.rows \ hit) \cup updated]

\* db.insert(table).values(data).onConflictDoNothing({target}).returning()
onConflictDoNothing(db, t, data, target) ==
    IF ~db.connected THEN Failure(db, "connection failed")
    ELSE IF target \notin UniqueKeys
    THEN Failure(db, "no unique constraint matching the ON CONFLICT specification")
    ELSE
        LET proposed == ProposedRow(t, data)
        IN  IF ConflictingRows(db.rows, t, target, proposed) = {}
            THEN [kind |-> "rows", error |-> "", rows |-> <<Returning(t, proposed)>>,
                  store |-> db.rows \cup {proposed}]
            ELSE [kind |-> "rows", error |-> "", rows |-> <<>>, store |-> db.rows]

upsertRecordDoNothing(db, t, data, conflictColumns, excluded) ==
    onConflictDoNothing(db, t, data, conflictColumns)

upsertRecordSwallow(db, t, data, conflictColumns, excluded) ==
    LET r == onConflictDoUpdate(db, t, data, conflictColumns,
                                buildConflictUpdateColumns(<<>>, t, excluded).value)
    IN  IF r.kind = "error" THEN [r EXCEPT !.kind = "rows", !.error = ""] ELSE r

\* upsertRecord(db, table, data, conflictColumns, excludeColumns = [])
upsertRecord(db, t, data, conflictColumns, excluded) ==
    onConflictDoUpdate(db, t, data, conflictColumns,
                       buildConflictUpdateColumns(<<>>, t, excluded).value)

\* the calls made: every record with every exclusion array on a live client
\* and the primary-key target, and every record with every target on a live
\* or a lost connection with the default exclusion array
Requests ==
    [data : InsertValues, target : UniqueKeys, excluded : ExcludeChoices,
     connected : {TRUE}]
    \cup [data : InsertValues, target : ConflictTargets, excluded : {<<>>},
          connected : BOOLEAN]

\* a caller awaits one upsertRecord call
UpsertRecord ==
    /\ \E req \in Requests :
          LET db == [rows |-> store, connected |-> req.connected]
          IN  \E r \in {upsertRecord(db, UsersTable, req.data, req.target, req.excluded)} :
              /\ store' = r.store
              /\ lastCall' = [kind |-> "call", data |-> req.data, target |-> req.target,
                              excluded |-> req.excluded, connected |-> req.connected,
                              before |-> store,
                              outcome |-> [kind |-> r.kind, error |-> r.error,
                                           rows |-> r.rows]]
    /\ UNCHANGED <<builderVars, takeVars>>

Init ==
    /\ store = {}
    /\ lastCall = [kind |-> "none"]
    /\ table = UsersTable
    /\ excludeColumns = <<>>
    /\ heap = <<>>
    /\ calls = NoCalls
    /\ items = <<>>
    /\ taken = [kind |-> "none"]

Next == UpsertRecord

Spec == Init /\ [][Next]_vars

---------------------------------------------------------------------------
(* takeFirstOrNull / takeFirstOrThrow.  JavaScript values are written as   *)
(* their literals.                                                         *)

JsValues == {"0", "1", "''", "'a'", "null"}

\* ToBoolean(v) is false
Falsy(v) == v \in {"0", "''", "null", "undefined", "false", "NaN"}

\* values.length > 0 ? values[0] : null
takeFirstOrNull(values) == IF Len(values) > 0 THEN values[1] ELSE "null"

\* first = takeFirstOrNull(items); if (!first) throw ...; return first
takeFirstOrThrow(arr) ==
    LET first == takeFirstOrNull(arr)
    IN  IF Falsy(first)
        THEN [kind |-> "throw", error |-> "First item not found"]
        ELSE [kind |-> "return", value |-> first]

\* a caller hands an array to takeFirstOrThrow
TakeFirst ==
    /\ \E arr \in SeqsUpTo(JsValues, MaxItems) :
          /\ items' = arr
          /\ taken' = takeFirstOrThrow(arr)
    /\ UNCHANGED <<builderVars, upsertVars>>

NextTake == TakeFirst

SpecTake == Init /\ [][NextTake]_vars

---------------------------------------------------------------------------
(* Claims about buildConflictUpdateColumns, over the logged calls.         *)

\* C1: the returned mapping's key set is exactly columns(T) minus E; elements
\* of E that are no column of T are ignored, an empty E yields every column
\* and E = columns(T) yields the empty mapping.
C1_KeySetIsColumnsMinusExcluded ==
    \A i \in DOMAIN calls :
       LET c == calls[i]
           cols == Range(TableKeys(c.table))
       IN  /\ NoRepeat(Keys(c.returned))
           /\ KeySet(c.returned) = cols \ Range(c.excluded)
           /\ (c.excluded = <<>> => KeySet(c.returned) = cols)
           /\ (cols \subseteq Range(c.excluded) => c.returned = <<>>)

C1_Witness ==
    \E i \in DOMAIN calls :
       /\ Foreign \in Range(calls[i].excluded)
       /\ Range(calls[i].excluded) \cap Range(TableKeys(calls[i].table)) # {}
       /\ calls[i].returned # <<>>

\* C2: the value under key c is the proposed-row reference excluded.<n>, n
\* being the storage name of column c in T, not the logical identifier.
C2_ValueRefersToStorageName ==
    \A i \in DOMAIN calls :
       \A e \in Range(calls[i].returned) :
          \E col \in Range(calls[i].table.columns) :
             /\ col.key = e.key
             /\ e.value = "excluded." \o col.name

C2_Witness ==
    \E i \in DOMAIN calls :
       [key |-> "updatedAt", value |-> "excluded.updated_at"] \in Range(calls[i].returned)

\* C7: two calls with identical inputs return structurally identical
\* mappings held in distinct objects, whatever the caller did to the earlier
\* result in between, and no call changes the table or the exclusion array.
C7_PureAndFresh ==
    /\ \A i, j \in DOMAIN calls :
          (i < j /\ calls[i].table = calls[j].table
                 /\ calls[i].excluded = calls[j].excluded)
             => /\ calls[i].returned = calls[j].returned
                /\ calls[i].ref # calls[j].ref
    /\ \A i \in DOMAIN calls :
          /\ calls[i].table = table
          /\ calls[i].excluded = excludeColumns

C7_Witness ==
    \E i, j \in DOMAIN calls :
       /\ i < j
       /\ calls[j].heapBefore[calls[i].ref] # calls[i].returned
       /\ calls[j].returned # <<>>

\* C8: the keys of the returned mapping are in the table's column order,
\* whatever the order of the exclusion array.
C8_KeysInTableOrder ==
    \A i \in DOMAIN calls :
       LET got == Keys(calls[i].returned)
           cols == TableKeys(calls[i].table)
       IN  \A a, b \in Range(got) :
              (IndexOf(got, a) < IndexOf(got, b)) <=> (IndexOf(cols, a) < IndexOf(cols, b))

C8_Witness ==
    \E i \in DOMAIN calls :
       /\ Len(calls[i].returned) >= 2
       /\ Len(calls[i].excluded) >= 2
       /\ calls[i].excluded[1] # calls[i].excluded[2]

---------------------------------------------------------------------------
(* Claims about upsertRecord, over the most recent call.                   *)

Called == lastCall.kind = "call"

\* the rows stored before the call that the record collides with
Matched == {r \in lastCall.before : r[StorageName(UsersTable, lastCall.target)]
                                      = lastCall.data[lastCall.target]}

\* the rows stored after the call under the record's conflict-target value
Stored == {r \in store : r[StorageName(UsersTable, lastCall.target)]
                           = lastCall.data[lastCall.target]}

Succeeded == lastCall.outcome.kind = "rows"

\* nothing about the call makes the statement fail
Sound ==
    /\ lastCall.connected
    /\ lastCall.target \in UniqueKeys
    /\ ~(Range(TableKeys(UsersTable)) \subseteq Range(lastCall.excluded))

\* the row handed back is the row stored
HandsBack(row, r) == \A k \in DOMAIN row : row[k] = r[StorageName(UsersTable, k)]

\* C3: a call with the default exclusion array that collides with an existing
\* row stores and returns a row that holds the record's value in every column
\* the record supplies, the conflict-target column keeping its value.
C3_ConflictTakesRecordValues ==
    (Called /\ Sound /\ lastCall.excluded = <<>> /\ Matched # {})
       => /\ Succeeded
          /\ Len(lastCall.outcome.rows) = 1
          /\ \A old \in Matched :
                LET row == lastCall.outcome.rows[1]
                IN  /\ \A k \in DOMAIN lastCall.data : row[k] = lastCall.data[k]
                    /\ row[lastCall.target] = old[StorageName(UsersTable, lastCall.target)]
                    /\ \E r \in Stored : HandsBack(row, r)

C3_Witness ==
    /\ Called /\ Sound /\ Succeeded
    /\ lastCall.excluded = <<>>
    /\ lastCall.data.id = 1
    /\ lastCall.data.email = "a@x.com"
    /\ \E old \in Matched : old.email = "old@x.com"

C6_FailureSurfacesAndLeavesStore ==
    Called =>
       /\ lastCall.outcome.kind \in {"rows", "error"}
       /\ ~lastCall.connected =>
             (lastCall.outcome.kind = "error" /\ lastCall.outcome.error = "connection failed")
       /\ lastCall.target \notin UniqueKeys => lastCall.outcome.kind = "error"
       /\ lastCall.outcome.kind = "error" =>
             /\ store = lastCall.before
             /\ lastCall.outcome.rows = <<>>
             /\ lastCall.outcome.error # ""
       /\ lastCall.outcome.kind = "rows" => lastCall.outcome.error = ""

C6_Witness ==
    /\ Called
    /\ lastCall.outcome.kind = "error"
    /\ \E old \in lastCall.before :
          old.id = lastCall.data.id /\ old.email # lastCall.data.email

\* C9: on a collision, with a non-empty exclusion array, every excluded column
\* of the existing row keeps its value and every other column the record
\* supplies takes the record's value.
C9_ExcludedColumnsKeepTheirValues ==
    (Called /\ lastCall.excluded # <<>> /\ Matched # {})
       => /\ Sound => Succeeded
          /\ Succeeded =>
                /\ Len(lastCall.outcome.rows) = 1
                /\ \A old \in Matched :
                      LET row == lastCall.outcome.rows[1]
                      IN  /\ \A k \in DOMAIN row :
                                k \in Range(lastCall.excluded)
                                   => row[k] = old[StorageName(UsersTable, k)]
                          /\ \A k \in DOMAIN lastCall.data :
                                k \notin Range(lastCall.excluded) => row[k] = lastCall.data[k]
                          /\ \E r \in Stored : HandsBack(row, r)

C9_Witness ==
    /\ Called /\ Succeeded
    /\ lastCall.excluded = <<"email">>
    /\ \E old \in Matched :
          /\ old.email # lastCall.data.email
          /\ old.email = lastCall.outcome.rows[1].email
          /\ old.updated_at # lastCall.outcome.rows[1].updatedAt

\* C10: the store holds at most one row per conflict-target value; a call
\* that succeeds inserts or updates the one row under the record's
\* conflict-target value and leaves every other row alone, so the row count
\* grows by one when no row matched and is unchanged otherwise.
C10_OneRowPerTargetValue ==
    /\ \A r1, r2 \in store : r1.id = r2.id => r1 = r2
    /\ (Called /\ Succeeded) =>
          /\ Cardinality(Stored) = 1
          /\ store \ Stored = lastCall.before \ Matched
          /\ Cardinality(store) =
                Cardinality(lastCall.before) + (IF Matched = {} THEN 1 ELSE 0)
    /\ (Called /\ Sound) => Succeeded

C10_Witness ==
    /\ Called /\ Succeeded
    /\ Cardinality(store) = 2
    /\ Matched # {}
    /\ Stored # Matched

---------------------------------------------------------------------------
(* Claims about takeFirstOrThrow.                                          *)

\* C5: takeFirstOrThrow throws if and only if the array is empty, and returns
\* the first element of every non-empty array, whatever that element is.
C5_ThrowsIffEmpty ==
    taken.kind # "none" =>
       /\ (taken.kind = "throw") <=> (items = <<>>)
       /\ items # <<>> => taken = [kind |-> "return", value |-> items[1]]

===========================================================================
